---- MODULE Spec2Model ----
(***************************************************************************)
(* Model of notebook/agentchat_oai_assistant_function_call.ipynb:          *)
(* the function get_ossinsight (one HTTP POST to OSS Insight and the       *)
(* rendering of the JSON answer as a text report), and the conversation    *)
(* between user_proxy and the OSS Analyst assistant that calls it.         *)
(*                                                                         *)
(* Text is modelled by TLA+ strings, so that the report is the very text   *)
(* the code builds.  A JSON value is a tagged record: [t |-> "null"],      *)
(* [t |-> "str", v |-> s], [t |-> "list", v |-> seq], and                  *)
(* [t |-> "obj", v |-> f] with f a function from keys to JSON values (a    *)
(* Python dict).  Python's None is the JSON null.                          *)
(***************************************************************************)
EXTENDS Integers, Sequences, FiniteSets, TLC

VARIABLES
    pc,                 \* where the invocation of get_ossinsight stands
    question,           \* the argument of get_ossinsight
    requests,           \* the HTTP requests sent so far, in order
    response,           \* the local `response` (status_code and body)
    answer,             \* the local `answer` (a dict)
    report_components,  \* the local `report_components` (a list of str)
    outcome,            \* what the invocation gave its caller
    ncalls,             \* number of invocations started
    earlier,            \* history: one earlier completed invocation
    chat_pc,            \* where the conversation stands
    sent,               \* number of messages user_proxy has sent
    auto_replies,       \* user_proxy's consecutive auto-reply counter
    tool_calls,         \* function requests made in the current assistant run
    requested,          \* name of the function the assistant last requested
    last_msg            \* content of the last message user_proxy received

fvars == <<pc, question, requests, response, answer, report_components,
           outcome, ncalls>>
cvars == <<chat_pc, sent, auto_replies, tool_calls, requested, last_msg>>
vars == <<pc, question, requests, response, answer, report_components,
          outcome, ncalls, earlier, chat_pc, sent, auto_replies, tool_calls,
          requested, last_msg>>

(***************************************************************************)
(* Bounds of the model.                                                    *)
(***************************************************************************)
MaxCalls == 2       \* invocations of get_ossinsight by a direct caller
MaxToolCalls == 2   \* function requests in one run of the assistant

(***************************************************************************)
(* JSON values and Python dicts.                                           *)
(***************************************************************************)
JNull == [t |-> "null"]
JStr(s) == [t |-> "str", v |-> s]
JList(s) == [t |-> "list", v |-> s]
JObj(f) == [t |-> "obj", v |-> f]
EmptyDict == [k \in {} |-> JNull]

\* dict.get(key, None)
Get(d, key) == IF key \in DOMAIN d THEN d[key] ELSE JNull

\* d[k1][k2] does not raise KeyError
HasPath(d, k1, k2) ==
    /\ k1 \in DOMAIN d
    /\ d[k1].t = "obj"
    /\ k2 \in DOMAIN d[k1].v

\* repr() of a str without quotes or escapes in it
PyRepr(v) == IF v.t = "str" THEN "'" \o v.v \o "'" ELSE "None"

\* str() of a JSON value: a str is itself, None is "None", a dict of at
\* most one key is "{'key': repr(value)}"
PyStr(v) ==
    CASE v.t = "str" -> v.v
      [] v.t = "null" -> "None"
      [] v.t = "obj" ->
            IF DOMAIN v.v = {} THEN "{}"
            ELSE LET k == CHOOSE k \in DOMAIN v.v : TRUE
                 IN  "{'" \o k \o "': " \o PyRepr(v.v[k]) \o "}"
      [] OTHER -> "[]"

\* sep.join(seq)
RECURSIVE Join(_, _)
Join(sep, seq) ==
    IF Len(seq) = 0 THEN ""
    ELSE IF Len(seq) = 1 THEN seq[1]
    ELSE seq[1] \o sep \o Join(sep, Tail(seq))

\* sub in s
Contains(s, sub) ==
    \E i \in 1..(Len(s) - Len(sub) + 1) : SubSeq(s, i, i + Len(sub) - 1) = sub

(***************************************************************************)
(* The remote service's possible responses.                                *)
(***************************************************************************)
Questions == {"Top 10 developers", "Most starred repos"}
Titles == {"Top developers"}
Sqls == {"", "SELECT 1"}
Errors == {"query timed out"}
RowA == JObj([login |-> JStr("torvalds")])
RowB == JObj([login |-> JStr("tj")])
RowLists == {<<>>, <<RowA>>, <<RowA, RowB>>, <<RowB, RowA>>, <<RowB, RowB, RowA>>}

ResultParts ==
    {EmptyDict, [result |-> JNull]}
        \cup {[result |-> JObj([rows |-> JList(rs)])] : rs \in RowLists}
ErrorParts ==
    {EmptyDict, [error |-> JNull]} \cup {[error |-> JStr(e)] : e \in Errors}

\* answers of the shape the service documents
WellFormed ==
    {[question |-> JObj([title |-> JStr(ti)]), query |-> JObj([sql |-> JStr(s)])]
        @@ r @@ e : ti \in Titles, s \in Sqls, r \in ResultParts, e \in ErrorParts}

\* answers lacking a key the code indexes
Malformed ==
    { [question |-> JObj(EmptyDict), query |-> JObj([sql |-> JStr("")])],
      [question |-> JObj([title |-> JStr("Top developers")])],
      [question |-> JObj([title |-> JStr("Top developers")]),
       query |-> JObj([sql |-> JStr("")]), result |-> JObj(EmptyDict)] }

NotJson == [json |-> FALSE, value |-> EmptyDict]
JsonBody(d) == [json |-> TRUE, value |-> d]
Bodies == {NotJson} \cup {JsonBody(d) : d \in WellFormed \cup Malformed}
FailureBodies == {NotJson, JsonBody([error |-> JStr("query timed out")])}
FailureCodes == {404, 500}

NoResponse == [status_code |-> 0, body |-> NotJson]
NoOutcome == [kind |-> "none", value |-> ""]
Return(text) == [kind |-> "return", value |-> text]
Raise(exc) == [kind |-> "raise", value |-> exc]
NoEarlier == [some |-> FALSE, response |-> NoResponse, outcome |-> NoOutcome]

(***************************************************************************)
(* get_ossinsight: the pieces of its code.                                 *)
(***************************************************************************)
Url == "https://api.ossinsight.io/explorer/answer"
Headers == [ContentType |-> "application/json"]
\* variant: the cached answer is accepted
RequestDataCached(q) == [question |-> q, ignoreCache |-> FALSE]
RequestData(q) == [question |-> q, ignoreCache |-> TRUE]

\* requests.post(url, headers=headers, json=data): no timeout is passed
\* variant: the POST is given a timeout
PostTimeoutSet == "30"
PostTimeout == "None"
PostRaises ==
    {"ConnectionError"} \cup (IF PostTimeout = "None" THEN {} ELSE {"Timeout"})

\* variant: the status code is left out of the message
FailureMessageNoCode(url, status_code) == "Request to " \o url \o " failed"
FailureMessage(url, status_code) ==
    "Request to " \o url \o " failed with status code: " \o ToString(status_code)

\* variant: the caller's question is echoed instead of the answer's title
QuestionSectionEcho(ans) == "Question: " \o question
QuestionSection(ans) == "Question: " \o PyStr(ans["question"].v["title"])

\* variant: the test for an empty query is forgotten
EmitsSqlAlways(ans) == TRUE
EmitsSql(ans) == ans["query"].v["sql"] # JStr("")
SqlSection(ans) == "querySQL: " \o PyStr(ans["query"].v["sql"])

ResultIsNone(ans) == Get(ans, "result") = JNull
RowsOf(ans) == ans["result"].v["rows"].v
RowLines(ans) == [i \in 1..Len(RowsOf(ans)) |-> PyStr(RowsOf(ans)[i])]
\* variant: only the first row is indented
ResultSectionFirstIndented(ans) ==
    IF ResultIsNone(ans) \/ Len(RowsOf(ans)) = 0
    THEN "Result: N/A"
    ELSE "Result:\n  " \o Join("\n", RowLines(ans))
ResultSection(ans) ==
    IF ResultIsNone(ans) \/ Len(RowsOf(ans)) = 0
    THEN "Result: N/A"
    ELSE "Result:\n  " \o Join("\n  ", RowLines(ans))

\* variant: a null error counts as an error
EmitsErrorIfPresent(ans) == "error" \in DOMAIN ans
EmitsError(ans) == Get(ans, "error") # JNull
ErrorSection(ans) == "Error: " \o PyStr(ans["error"])

\* variant: the sections are joined by a single newline
JoinReportSingleNewline(components) == Join("\n", components)
JoinReport(components) == Join("\n\n", components)

(***************************************************************************)
(* get_ossinsight: its steps.                                              *)
(***************************************************************************)
\* lines 77-88: a fresh frame, then the POST is sent and the call blocks
Invoke(q) ==
    /\ pc = "idle"
    /\ question' = q
    /\ requests' = Append(requests,
                          [method |-> "POST", url |-> Url, headers |-> Headers,
                           json |-> RequestData(q)])
    /\ response' = NoResponse
    /\ answer' = EmptyDict
    /\ report_components' = <<>>
    /\ outcome' = NoOutcome
    /\ ncalls' = ncalls + 1
    /\ pc' = "post"

\* the remote service answers the POST
RemoteResponds(status_code, body) ==
    /\ pc = "post"
    /\ response' = [status_code |-> status_code, body |-> body]
    /\ pc' = "got_response"
    /\ UNCHANGED <<question, requests, answer, report_components, outcome,
                   ncalls, earlier>>
    /\ UNCHANGED cvars

\* requests.post raises
TransportFails(exc) ==
    /\ pc = "post"
    /\ outcome' = Raise(exc)
    /\ pc' = "done"
    /\ UNCHANGED <<question, requests, response, answer, report_components,
                   ncalls, earlier>>
    /\ UNCHANGED cvars

\* lines 89-92
CheckStatus ==
    /\ pc = "got_response"
    /\ IF response.status_code = 200
       THEN IF response.body.json
            THEN /\ answer' = response.body.value
                 /\ pc' = "question"
                 /\ UNCHANGED outcome
            ELSE /\ outcome' = Raise("JSONDecodeError")
                 /\ pc' = "done"
                 /\ UNCHANGED answer
       ELSE /\ outcome' = Return(FailureMessage(Url, response.status_code))
            /\ pc' = "done"
            /\ UNCHANGED answer
    /\ UNCHANGED <<question, requests, response, report_components, ncalls,
                   earlier>>
    /\ UNCHANGED cvars

\* lines 94-95
AppendQuestion ==
    /\ pc = "question"
    /\ IF HasPath(answer, "question", "title")
       THEN /\ report_components' = Append(<<>>, QuestionSection(answer))
            /\ pc' = "sql"
            /\ UNCHANGED outcome
       ELSE /\ outcome' = Raise("KeyError")
            /\ pc' = "done"
            /\ report_components' = <<>>
    /\ UNCHANGED <<question, requests, response, answer, ncalls, earlier>>
    /\ UNCHANGED cvars

\* lines 96-97
AppendSql ==
    /\ pc = "sql"
    /\ IF HasPath(answer, "query", "sql")
       THEN /\ report_components' =
                  IF EmitsSql(answer)
                  THEN Append(report_components, SqlSection(answer))
                  ELSE report_components
            /\ pc' = "result"
            /\ UNCHANGED outcome
       ELSE /\ outcome' = Raise("KeyError")
            /\ pc' = "done"
            /\ UNCHANGED report_components
    /\ UNCHANGED <<question, requests, response, answer, ncalls, earlier>>
    /\ UNCHANGED cvars

\* lines 99-103
AppendResult ==
    /\ pc = "result"
    /\ IF ResultIsNone(answer) \/ HasPath(answer, "result", "rows")
       THEN /\ report_components' =
                  Append(report_components, ResultSection(answer))
            /\ pc' = "error"
            /\ UNCHANGED outcome
       ELSE /\ outcome' = Raise("KeyError")
            /\ pc' = "done"
            /\ UNCHANGED report_components
    /\ UNCHANGED <<question, requests, response, answer, ncalls, earlier>>
    /\ UNCHANGED cvars

\* lines 105-106
AppendError ==
    /\ pc = "error"
    /\ report_components' =
          IF EmitsError(answer)
          THEN Append(report_components, ErrorSection(answer))
          ELSE report_components
    /\ pc' = "join"
    /\ UNCHANGED <<question, requests, response, answer, outcome, ncalls,
                   earlier>>
    /\ UNCHANGED cvars

\* line 107
ReturnReport ==
    /\ pc = "join"
    /\ outcome' = Return(JoinReport(report_components))
    /\ pc' = "done"
    /\ UNCHANGED <<question, requests, response, answer, report_components,
                   ncalls, earlier>>
    /\ UNCHANGED cvars

\* the call is over: its frame, and the locals in it, are gone
PopFrame ==
    /\ pc' = "idle"
    /\ question' = ""
    /\ response' = NoResponse
    /\ answer' = EmptyDict
    /\ report_components' = <<>>
    /\ outcome' = NoOutcome

\* a caller of the function (a test with a mocked service, a script)
CallerInvokes(q) ==
    /\ chat_pc = "no_chat"
    /\ ncalls < MaxCalls
    /\ Invoke(q)
    /\ UNCHANGED earlier
    /\ UNCHANGED cvars

\* the caller has the outcome; it may keep it to compare with a later one
CallerResumes(keep) ==
    /\ chat_pc = "no_chat"
    /\ pc = "done"
    /\ earlier' = IF keep
                  THEN [some |-> TRUE, response |-> response, outcome |-> outcome]
                  ELSE earlier
    /\ PopFrame
    /\ UNCHANGED <<requests, ncalls>>
    /\ UNCHANGED cvars

Remote ==
    \/ \E body \in Bodies : RemoteResponds(200, body)
    \/ \E code \in FailureCodes, body \in FailureBodies : RemoteResponds(code, body)
    \/ \E exc \in PostRaises : TransportFails(exc)

FunctionStep ==
    \/ CheckStatus
    \/ AppendQuestion
    \/ AppendSql
    \/ AppendResult
    \/ AppendError
    \/ ReturnReport

\* nothing has been called yet
FunctionInit ==
    /\ pc = "idle"
    /\ question = ""
    /\ requests = <<>>
    /\ response = NoResponse
    /\ answer = EmptyDict
    /\ report_components = <<>>
    /\ outcome = NoOutcome
    /\ ncalls = 0
    /\ earlier = NoEarlier

\* the cells that define get_ossinsight have run; no conversation is started
Init ==
    /\ FunctionInit
    /\ chat_pc = "no_chat"
    /\ sent = 0
    /\ auto_replies = 0
    /\ tool_calls = 0
    /\ requested = ""
    /\ last_msg = ""

Next ==
    \/ \E q \in Questions : CallerInvokes(q)
    \/ Remote
    \/ FunctionStep
    \/ \E keep \in BOOLEAN : CallerResumes(keep)

Spec == Init /\ [][Next]_vars

\* the service answers, and the interpreter runs the function's code
LiveSpec == Spec /\ WF_vars(Remote) /\ WF_vars(FunctionStep)

(***************************************************************************)
(* The conversation: user_proxy.initiate_chat(oss_analyst, message=...).   *)
(* The agents' loop is the framework's; the notebook sets its parameters.  *)
(***************************************************************************)
\* variant: one more automatic reply is allowed
max_consecutive_auto_reply_more == 1 + 1
max_consecutive_auto_reply == 1
function_map == [ossinsight_data_api |-> "get_ossinsight"]

is_termination_msg(content) == Contains(content, "TERMINATE")

\* what the assistant may ask for and say
ToolNames == {"ossinsight_data_api", "get_ossinsight"}
Replies == {"The top 10 developers are: torvalds, ...", "All done. TERMINATE", ""}

InitiateChat ==
    /\ chat_pc = "ready"
    /\ sent' = 1
    /\ tool_calls' = 0
    /\ chat_pc' = "analyst_run"
    /\ UNCHANGED <<auto_replies, requested, last_msg, earlier>>
    /\ UNCHANGED fvars

\* the assistant's run requires a function call: the registered function is
\* executed, a name that is not registered gives the run an error text
AnalystRequestsFunction(name, q) ==
    /\ chat_pc = "analyst_run"
    /\ tool_calls < MaxToolCalls
    /\ requested' = name
    /\ tool_calls' = tool_calls + 1
    /\ IF name \in DOMAIN function_map
       THEN /\ Invoke(q)
            /\ chat_pc' = "executing"
       ELSE /\ UNCHANGED fvars
            /\ UNCHANGED chat_pc
    /\ UNCHANGED <<sent, auto_replies, last_msg, earlier>>

\* the function's text, or the text of its exception, goes back to the run
FunctionReturns ==
    /\ chat_pc = "executing"
    /\ pc = "done"
    /\ PopFrame
    /\ chat_pc' = "analyst_run"
    /\ UNCHANGED <<requests, ncalls, earlier>>
    /\ UNCHANGED <<sent, auto_replies, tool_calls, requested, last_msg>>

\* the run completes and the assistant's message reaches user_proxy
AnalystReplies(content) ==
    /\ chat_pc = "analyst_run"
    /\ last_msg' = content
    /\ chat_pc' = "proxy_received"
    /\ UNCHANGED <<sent, auto_replies, tool_calls, requested, earlier>>
    /\ UNCHANGED fvars

\* user_proxy stops on the sentinel or on an exhausted budget, and otherwise
\* sends its automatic reply (human_input_mode is "NEVER")
UserProxyReceives ==
    /\ chat_pc = "proxy_received"
    /\ IF is_termination_msg(last_msg) \/ auto_replies >= max_consecutive_auto_reply
       THEN /\ chat_pc' = "terminated"
            /\ UNCHANGED <<sent, auto_replies, tool_calls>>
       ELSE /\ auto_replies' = auto_replies + 1
            /\ sent' = sent + 1
            /\ tool_calls' = 0
            /\ chat_pc' = "analyst_run"
    /\ UNCHANGED <<requested, last_msg, earlier>>
    /\ UNCHANGED fvars

ChatInit ==
    /\ FunctionInit
    /\ chat_pc = "ready"
    /\ sent = 0
    /\ auto_replies = 0
    /\ tool_calls = 0
    /\ requested = ""
    /\ last_msg = ""

ChatNext ==
    \/ InitiateChat
    \/ \E name \in ToolNames, q \in Questions : AnalystRequestsFunction(name, q)
    \/ Remote
    \/ FunctionStep
    \/ FunctionReturns
    \/ \E content \in Replies : AnalystReplies(content)
    \/ UserProxyReceives

ChatSpec == ChatInit /\ [][ChatNext]_vars

\* every assistant run and every call of the function comes to its end
ChatLiveSpec == ChatSpec /\ WF_vars(ChatNext)

(***************************************************************************)
(* Properties of get_ossinsight, read off the text it returns.             *)
(***************************************************************************)
\* s.startswith(prefix)
StartsWith(s, prefix) ==
    /\ Len(s) >= Len(prefix)
    /\ SubSeq(s, 1, Len(prefix)) = prefix

\* s.find(sep) + 1: the first position of sep in s, or 0
Find(s, sep) ==
    LET at == {i \in 1..(Len(s) - Len(sep) + 1) : SubSeq(s, i, i + Len(sep) - 1) = sep}
    IN  IF at = {} THEN 0 ELSE CHOOSE i \in at : \A j \in at : i <= j

\* s.split(sep)
RECURSIVE Split(_, _)
Split(s, sep) ==
    LET i == Find(s, sep)
    IN  IF i = 0 THEN <<s>>
        ELSE <<SubSeq(s, 1, i - 1)>> \o Split(SubSeq(s, i + Len(sep), Len(s)), sep)

\* the invocation is over and gave back the report of a 200 answer
IsReport ==
    /\ pc = "done"
    /\ response.status_code = 200
    /\ outcome.kind = "return"

\* the Answer the service sent, and the fields of it the report shows
Sent == response.body.value
SentSql == Sent["query"].v["sql"].v
ResultMissing ==
    \/ "result" \notin DOMAIN Sent
    \/ Sent["result"] = JNull
    \/ Len(Sent["result"].v["rows"].v) = 0
SentRows == IF ResultMissing THEN <<>> ELSE Sent["result"].v["rows"].v
HasError == "error" \in DOMAIN Sent /\ Sent["error"] # JNull

\* the sections of a returned text, and the rank of a section's heading
SectionsOf(text) == Split(text, "\n\n")
Rank(sec) ==
    CASE StartsWith(sec, "Question: ") -> 1
      [] StartsWith(sec, "querySQL: ") -> 2
      [] StartsWith(sec, "Result") -> 3
      [] StartsWith(sec, "Error: ") -> 4
      [] OTHER -> 0
RanksOf(secs) == [i \in 1..Len(secs) |-> Rank(secs[i])]

\* C1: in the report of a 200 answer the question section is first, the
\* querySQL section (if any) second, the result section after both and the
\* error section (if any) last; no section occurs twice, and the sections
\* are separated by exactly one blank line.
C1_SectionOrder ==
    IsReport =>
        LET secs == SectionsOf(outcome.value)
            ranks == RanksOf(secs)
        IN  /\ ranks[1] = 1
            /\ \E i \in 1..Len(secs) : ranks[i] = 3
            /\ \A i \in 1..Len(secs) :
                  /\ ranks[i] \in 1..4
                  /\ secs[i] # ""
                  /\ ~StartsWith(secs[i], "\n")
            /\ \A i, j \in 1..Len(secs) : i < j => ranks[i] < ranks[j]

C1_Witness ==
    /\ IsReport
    /\ Len(SectionsOf(outcome.value)) = 4
    /\ Len(SentRows) >= 2

\* C2: on a status other than 200 the function returns a text holding the
\* endpoint URL and the status code; it does not raise, does not parse the
\* body, builds no report section and sends no second request.
C2_FailureMessage ==
    response.status_code \notin {0, 200} =>
        /\ answer = EmptyDict
        /\ report_components = <<>>
        /\ Len(requests) = ncalls
        /\ pc \in {"got_response", "done"}
        /\ pc = "done" =>
              /\ outcome.kind = "return"
              /\ Contains(outcome.value, "https://api.ossinsight.io/explorer/answer")
              /\ Contains(outcome.value, ToString(response.status_code))
              /\ ~Contains(outcome.value, "Question:")
              /\ ~Contains(outcome.value, "Result")
              /\ ~Contains(outcome.value, "Error:")

C2_Witness ==
    /\ pc = "done"
    /\ response.status_code = 404
    /\ response.body.json
    /\ outcome.kind = "return"

\* C3: every invocation ends by returning text, a report or the failure
\* message; no exception reaches the caller, whatever the service does.
C3_NoException ==
    pc = "done" =>
        /\ outcome.kind = "return"
        /\ \/ StartsWith(outcome.value, "Question: ")
           \/ Contains(outcome.value, ToString(response.status_code))

\* C4: the result section is exactly "Result: N/A" if and only if the
\* answer's result is absent, null or has no rows; otherwise it is "Result:"
\* followed by one line per row, indented by two spaces, in the rows' order.
C4_ResultSection ==
    IsReport =>
        LET secs == SectionsOf(outcome.value)
            ranks == RanksOf(secs)
            at == {i \in 1..Len(secs) : ranks[i] = 3}
            sec == secs[CHOOSE i \in at : TRUE]
            lines == Split(sec, "\n")
        IN  /\ Cardinality(at) = 1
            /\ (sec = "Result: N/A") <=> ResultMissing
            /\ ~ResultMissing =>
                  /\ lines[1] = "Result:"
                  /\ Len(lines) = Len(SentRows) + 1
                  /\ \A i \in 1..Len(SentRows) :
                        lines[i + 1] = "  " \o PyStr(SentRows[i])

C4_Witness ==
    /\ IsReport
    /\ Len(SentRows) >= 2
    /\ SentRows[1] # SentRows[2]

\* C5: the report has a "querySQL: <sql>" section if and only if query.sql
\* is not empty; with an empty query.sql, some rows and no error the report
\* is exactly the question section and the result section.
C5_SqlSection ==
    IsReport =>
        LET secs == SectionsOf(outcome.value)
            ranks == RanksOf(secs)
        IN  /\ (\E i \in 1..Len(secs) : ranks[i] = 2) <=> (SentSql # "")
            /\ SentSql # "" => secs[2] = "querySQL: " \o SentSql
            /\ (SentSql = "" /\ ~ResultMissing /\ ~HasError) =>
                  /\ Len(secs) = 2
                  /\ ranks[1] = 1
                  /\ StartsWith(secs[2], "Result:\n  ")
                  /\ ~Contains(outcome.value, "querySQL")

C5_Witness ==
    /\ IsReport
    /\ SentSql = ""
    /\ ~ResultMissing
    /\ ~HasError

\* C6: the report has an "Error: <error>" section if and only if the
\* answer's error is present and not null, whatever the result section is;
\* it is then the last section, and the text is still the report, not the
\* failure message of the other statuses.
C6_ErrorSection ==
    IsReport =>
        LET secs == SectionsOf(outcome.value)
            ranks == RanksOf(secs)
        IN  /\ (\E i \in 1..Len(secs) : ranks[i] = 4) <=> HasError
            /\ HasError =>
                  /\ secs[Len(secs)] = "Error: " \o Sent["error"].v
                  /\ ranks[1] = 1
                  /\ ~StartsWith(outcome.value, "Request to ")

C6_Witness ==
    /\ IsReport
    /\ HasError
    /\ ~ResultMissing

C8_RequestsOk ==
    /\ Len(requests) = ncalls
    /\ \A i \in 1..Len(requests) :
          /\ requests[i].method = "POST"
          /\ requests[i].url = "https://api.ossinsight.io/explorer/answer"
          /\ DOMAIN requests[i].json = {"question", "ignoreCache"}
          /\ requests[i].json.ignoreCache = TRUE
          /\ requests[i].json.question \in Questions
    /\ pc # "idle" => requests[ncalls].json.question = question
    /\ pc \in {"idle", "post"} => report_components = <<>>

C8_OnePost ==
    /\ []C8_RequestsOk
    /\ [][Len(requests') # Len(requests) => pc = "idle" /\ pc' = "post"]_vars

C8_Witness ==
    /\ pc = "done"
    /\ ncalls = 2
    /\ response.status_code = 404
    /\ requests[1].json.question # requests[2].json.question

\* C9: the invocation ends only after a response or a transport failure; it
\* leaves the POST only on one of these (there is no timeout), and once the
\* response is there it ends.
C9_Blocking ==
    /\ [](pc = "done" =>
            response.status_code # 0 \/ outcome = Raise("ConnectionError"))
    /\ [][pc = "post" =>
            \/ pc' = "post"
            \/ pc' = "got_response" /\ response'.status_code # 0
            \/ pc' = "done" /\ outcome' = Raise("ConnectionError")]_vars
    /\ (pc = "got_response") ~> (pc = "done")
    /\ (pc = "post") ~> (pc = "done")

C9_Witness ==
    /\ IsReport
    /\ ncalls = 2

\* C10: the conversation ends; user_proxy stops on a message that has the
\* sentinel in it or when its one auto-reply is spent, so it sends at most
\* two messages; get_ossinsight runs only on a request for the function
\* named ossinsight_data_api.
C10_Conversation ==
    /\ [](sent <= 2)
    /\ [][chat_pc = "proxy_received" /\ Contains(last_msg, "TERMINATE") =>
            chat_pc' = "terminated" /\ sent' = sent]_vars
    /\ [][ncalls' # ncalls =>
            chat_pc = "analyst_run" /\ requested' = "ossinsight_data_api"]_vars
    /\ [](pc # "idle" => requested = "ossinsight_data_api")
    /\ <>(chat_pc = "terminated")

C10_Witness ==
    /\ chat_pc = "terminated"
    /\ sent = 2
    /\ ncalls >= 2
    /\ ~Contains(last_msg, "TERMINATE")

====
